---- MODULE Spec2Model ----
(***************************************************************************)
(* The in-memory filesystem of llmfs: the node store (path -> node), the   *)
(* open-file table, and the file and metadata operations of                *)
(* MemoryFileOps and MemoryMetaOps, together with the nearest-prompt       *)
(* resolution of the prompt plugin.                                        *)
(*                                                                         *)
(* Nodes are Python dicts, shared by reference between the store and the   *)
(* open-file table.  A dict is held by the store under at most one path,   *)
(* so a handle refers to its node either as "the node now stored at path   *)
(* q" or, once the store has dropped that dict, as a detached node.        *)
(***************************************************************************)
EXTENDS Integers, Sequences, FiniteSets, TLC

VARIABLES
    data,        \* self._root._data: path -> node dict
    detached,    \* node dicts that only handles still refer to
    open_files,  \* self._open_files: handle -> [path, node]
    fd,          \* MemoryFileOps.fd, the handle counter
    calls,       \* the number of calls made so far
    ret,         \* the call just made: its arguments and what it returned
    fs_structure, \* the tree handed to the prompt plugin: path -> content
    resolved,    \* the prompt plugin's last answer: the path and the value
    inflight     \* per caller, the create, unlink or rename it is in the middle of

vars == <<data, detached, open_files, fd, calls, ret, fs_structure, resolved, inflight>>

(***************************************************************************)
(* Bounds of the model.                                                    *)
(***************************************************************************)
MaxLen == 2      \* characters of content a file may reach

(***************************************************************************)
(* Paths.  A path is the sequence of its components; "/" is the empty      *)
(* sequence.                                                               *)
(***************************************************************************)
Root == <<>>

Paths == {Root, <<"a">>, <<"b">>, <<"a", "b">>}

\* os.path.dirname / the first half of os.path.split: dirname("/") is "/"
Dirname(p) == IF p = Root THEN Root ELSE SubSeq(p, 1, Len(p) - 1)

\* os.path.basename / the second half of os.path.split: basename("/") is ""
Basename(p) == IF p = Root THEN "" ELSE p[Len(p)]

(***************************************************************************)
(* Text.  A str is a sequence of code points, a bytes value a sequence of  *)
(* octets; encode('utf-8') and decode('utf-8') convert between them.       *)
(***************************************************************************)
Space == 32

Chars == {Space, 97, 233}     \* ' ', 'a', and the two-byte 'e-acute'

RECURSIVE Encode(_)
Encode(s) ==
    IF s = <<>> THEN <<>>
    ELSE (IF Head(s) < 128
          THEN <<Head(s)>>
          ELSE <<192 + (Head(s) \div 64), 128 + (Head(s) % 64)>>) \o Encode(Tail(s))

RECURSIVE Decodable(_)
Decodable(b) ==
    IF b = <<>> THEN TRUE
    ELSE IF Head(b) < 128 THEN Decodable(Tail(b))
    ELSE /\ Head(b) >= 194 /\ Head(b) < 224
         /\ Len(b) >= 2
         /\ b[2] >= 128 /\ b[2] < 192
         /\ Decodable(Tail(Tail(b)))

RECURSIVE Decode(_)
Decode(b) ==
    IF b = <<>> THEN <<>>
    ELSE IF Head(b) < 128 THEN <<Head(b)>> \o Decode(Tail(b))
    ELSE <<(Head(b) - 192) * 64 + (b[2] - 128)>> \o Decode(Tail(Tail(b)))

\* s[:n] of a str or bytes value, n >= 0
Prefix(s, n) == SubSeq(s, 1, IF n < Len(s) THEN n ELSE Len(s))

\* s[i:j] with 0 <= i
Slice(s, i, j) == SubSeq(s, i + 1, IF j < Len(s) THEN j ELSE Len(s))

\* str.ljust(n): pad with spaces on the right up to n characters
Ljust(s, n) == IF Len(s) >= n THEN s ELSE s \o [i \in 1..(n - Len(s)) |-> Space]

(***************************************************************************)
(* Nodes.  size is the stored attrs["st_size"] (NoSize when the attribute  *)
(* is absent), gen tells whether xattrs names a generator, children is the *)
(* basename -> path map of a directory.                                    *)
(***************************************************************************)
NoSize == -1

NoChildren == [n \in {} |-> Root]

FileNode(gen) ==
    [type |-> "file", content |-> <<>>, size |-> NoSize, gen |-> gen,
     children |-> NoChildren]

DirNode(ch) ==
    [type |-> "directory", content |-> <<>>, size |-> NoSize, gen |-> FALSE,
     children |-> ch]

\* "children" in node
HasChildren(n) == n.type = "directory"

\* self.base[path] is not None
Present(p) == p \in DOMAIN data

\* dict item assignment and removal
Put(f, k, v) == [x \in (DOMAIN f) \cup {k} |-> IF x = k THEN v ELSE f[x]]

Drop(f, k) == [x \in (DOMAIN f) \ {k} |-> f[x]]

Min(S) == CHOOSE x \in S : \A y \in S : x <= y

(***************************************************************************)
(* Node references held by handles.  A detached node is keyed by the least *)
(* handle that holds it.                                                   *)
(***************************************************************************)
Stored(p) == [kind |-> "stored", at |-> p, key |-> 0]

Detached(k) == [kind |-> "detached", at |-> Root, key |-> k]

\* the dict a reference denotes
Deref(r) == IF r.kind = "stored" THEN data[r.at] ELSE detached[r.key]

Holders(o, r) == {h \in DOMAIN o : o[h].node = r}

\* the store lets go of the dict at p: handles on it keep it alive
DetachHandles(o, p) ==
    [h \in DOMAIN o |->
        IF o[h].node = Stored(p)
        THEN [o[h] EXCEPT !.node = Detached(Min(Holders(o, Stored(p))))]
        ELSE o[h]]

DetachNodes(dt, o, d, p) ==
    IF p \in DOMAIN d /\ Holders(o, Stored(p)) # {}
    THEN Put(dt, Min(Holders(o, Stored(p))), d[p])
    ELSE dt

\* the dict at p is now stored at q
MoveHandles(o, p, q) ==
    [h \in DOMAIN o |->
        IF o[h].node = Stored(p) THEN [o[h] EXCEPT !.node = Stored(q)] ELSE o[h]]

(***************************************************************************)
(* The record of a call: the operation, the arguments the properties refer *)
(* to, how it ended (status), what it returned (value: bytes, num: a       *)
(* number), how often it invoked the generator (gens), and the content of  *)
(* the node it acted on as it was before the call (old), with whether     *)
(* that node existed and whether it was tagged with a generator, and       *)
(* whether the call is an open that follows a failed generation by open    *)
(* on the same path (afterFail).  For a write, spliced is the content the  *)
(* data was spliced into; for an open, tampered tells whether the          *)
(* generator changed the tree it was given.                                *)
(***************************************************************************)
NoCall ==
    [op |-> "none", path |-> Root, path2 |-> Root, fh |-> 0, offset |-> 0,
     size |-> 0, bytes |-> <<>>, status |-> "ok", value |-> <<>>, num |-> 0,
     gens |-> 0, genOk |-> FALSE, tagged |-> FALSE, existed |-> FALSE,
     afterFail |-> FALSE, old |-> <<>>, tampered |-> FALSE,
     spliced |-> <<>>]

Call(op, p) == [NoCall EXCEPT !.op = op, !.path = p]

(***************************************************************************)
(* The bootstrap: root, a directory /a and a file /a/b in it.  The seeded  *)
(* file may be tagged with a generator and may come with content.          *)
(***************************************************************************)
SeedContents == {<<>>, <<233>>}

NoStructure == [q \in {} |-> [form |-> "text", body |-> Root]]

NoResolution == [path |-> Root, value |-> [form |-> "none", body |-> Root]]

InitStore(tagged, c) ==
    /\ data = (Root :> DirNode("a" :> <<"a">>)
               @@ <<"a">> :> DirNode("b" :> <<"a", "b">>)
               @@ <<"a", "b">> :> [FileNode(tagged) EXCEPT !.content = c])
    /\ detached = [k \in {} |-> FileNode(FALSE)]
    /\ open_files = [h \in {} |-> [path |-> Root, node |-> Stored(Root)]]
    /\ fd = 0
    /\ calls = 0
    /\ ret = NoCall

\* the callers that may be inside an operation at the same time
Callers == {"c1", "c2"}

\* the parent dict a create holds between its lookup and its use: the dict
\* stored at a path, the dict a rename has popped and not yet stored again
\* (held by that caller), or a dict the store no longer has (lost)
Lost == [kind |-> "lost", at |-> Root, by |-> "c1"]

StoredAt(p) == [kind |-> "stored", at |-> p, by |-> "c1"]

HeldBy(c) == [kind |-> "held", at |-> Root, by |-> c]

Idle == [op |-> "idle", pc |-> "idle", path |-> Root, path2 |-> Root,
         par |-> Lost, node |-> FileNode(FALSE)]

Init ==
    /\ \E tagged \in BOOLEAN, c \in SeedContents : InitStore(tagged, c)
    /\ fs_structure = NoStructure
    /\ resolved = NoResolution
    /\ inflight = [c \in Callers |-> Idle]

(***************************************************************************)
(* MemoryFileOps.create                                                    *)
(***************************************************************************)
\* create without the registration in the parent
LinkChildMissing(d, p) == d

\* line 37: parent["children"][basename] = path
LinkChild(d, p) == [d EXCEPT ![Dirname(p)].children = Put(@, Basename(p), p)]

Create(p) ==
    /\ IF ~Present(Dirname(p))
       THEN \* raise FuseOSError(ENOENT)
            /\ ret' = [Call("create", p) EXCEPT !.status = "ENOENT"]
            /\ UNCHANGED <<data, detached, open_files, fd>>
       ELSE LET parent == data[Dirname(p)]
                \* self._root._data[path] = {...}: a dict at p is replaced
                d1 == Put(data, p, FileNode(FALSE))
            IN  /\ detached' = DetachNodes(detached, open_files, data, p)
                /\ open_files' = DetachHandles(open_files, p)
                /\ IF ~HasChildren(parent)
                   THEN \* parent["children"] raises KeyError
                        /\ data' = d1
                        /\ ret' = [Call("create", p) EXCEPT !.status = "KeyError"]
                        /\ UNCHANGED fd
                   ELSE \* parent is the dict found before the assignment
                        /\ data' = IF Dirname(p) = p THEN d1 ELSE LinkChild(d1, p)
                        /\ fd' = fd + 1
                        /\ ret' = [Call("create", p) EXCEPT
                                       !.num = fd + 1,
                                       !.existed = Present(p)]

(***************************************************************************)
(* Content generation.  generate_file_content is an external collaborator: *)
(* it raises, or returns some text.                                        *)
(***************************************************************************)
GenOutputs == {<<97>>, <<233>>}

GenOutcomes == {[ok |-> FALSE, out |-> <<>>]} \cup {[ok |-> TRUE, out |-> t] : t \in GenOutputs}

\* open that generates on every call
NeedsGenerationAlways(n) == TRUE

\* open that generates for tagged nodes only
NeedsGenerationTagged(n) == n.content = <<>> /\ n.gen

\* open: "if not content or ('xattrs' in node and 'generator' in node['xattrs'])"
NeedsGeneration(n) == n.content = <<>> \/ n.gen

\* a failed generation that leaves the old content in place
GeneratedKeep(n, outcome) ==
    IF outcome.ok
    THEN [n EXCEPT !.content = outcome.out, !.size = Len(Encode(outcome.out))]
    ELSE n

\* open, the try block and its except branch
Generated(n, outcome) ==
    IF outcome.ok
    THEN [n EXCEPT !.content = outcome.out, !.size = Len(Encode(outcome.out))]
    ELSE [n EXCEPT !.content = <<>>]

\* the node a handle or the store resolves to, after a change of it
DataWith(r, n) == IF r.kind = "stored" THEN [data EXCEPT ![r.at] = n] ELSE data

DetachedWith(r, n) == IF r.kind = "stored" THEN detached ELSE [detached EXCEPT ![r.key] = n]

IsFile(p) == Present(p) /\ data[p].type = "file"

(***************************************************************************)
(* The tree handed to the generator.  open builds fs_structure from the    *)
(* store dict by dict: the store, each node, and each dict inside a node   *)
(* (attrs, children, xattrs).  A dict that is copied is a new object; one  *)
(* that is not would be the live dict itself, and what is done to it would *)
(* be done to the store.  The values inside attrs, children and xattrs are *)
(* strings.                                                                *)
(***************************************************************************)
Levels == {"store", "node", "attrs", "children", "xattrs"}

\* a copy of the store that shares the nodes: dict(self._root.data)
CopiedLevelsShallow == {"store"}

\* fs_structure = {}, node_copy = {}, attrs_copy = nv.copy(), nv.copy()
CopiedLevels == {"store", "node", "attrs", "children", "xattrs"}

\* attrs without the volatile fields, of which the model keeps st_size
Snapshot(d) == [k \in DOMAIN d |-> [d[k] EXCEPT !.size = NoSize]]

\* the store once the snapshot is built: the pops hit the dict they are made on
AfterSnapshot(d) == IF "attrs" \in CopiedLevels THEN d ELSE Snapshot(d)

\* what a generator may do to the tree it is given: nothing, or a change of
\* one dict of one path
NoMutation == [level |-> "none", path |-> Root]

Mutations(d) == {NoMutation} \cup {[level |-> l, path |-> q] : l \in Levels, q \in DOMAIN d}

\* the change done to a tree
Tamper(d, m) ==
    IF m.level = "store" THEN Drop(d, m.path)
    ELSE IF m.level = "node" THEN [d EXCEPT ![m.path].content = <<97>>]
    ELSE IF m.level = "attrs" THEN [d EXCEPT ![m.path].size = 0]
    ELSE IF m.level = "children" THEN [d EXCEPT ![m.path].children = NoChildren]
    ELSE IF m.level = "xattrs" THEN [d EXCEPT ![m.path].gen = ~@]
    ELSE d

\* the store once the generator has returned or raised
AfterGenerator(d, m) ==
    IF m.level \in Levels /\ m.level \notin CopiedLevels
    THEN Tamper(AfterSnapshot(d), m)
    ELSE AfterSnapshot(d)

(***************************************************************************)
(* MemoryFileOps.open                                                      *)
(***************************************************************************)
Open(p, outcome) ==
    /\ UNCHANGED detached
    /\ IF ~IsFile(p)
       THEN \* raise FuseOSError(ENOENT)
            /\ ret' = [Call("open", p) EXCEPT !.status = "ENOENT"]
            /\ UNCHANGED <<data, open_files, fd>>
       ELSE LET node == data[p]
                gen == NeedsGeneration(node)
            IN  \E m \in (IF gen THEN Mutations(data) ELSE {NoMutation}) :
                LET live == AfterGenerator(data, m)
                    \* node is the dict looked up before the generator ran
                    node1 == IF p \in DOMAIN live THEN live[p] ELSE node
                IN
                /\ data' = IF ~gen THEN data
                           ELSE IF p \in DOMAIN live
                           THEN [live EXCEPT ![p] = Generated(node1, outcome)]
                           ELSE live
                /\ fd' = fd + 1
                /\ open_files' = Put(open_files, fd + 1,
                                     [path |-> p, node |-> Stored(p)])
                /\ ret' = [Call("open", p) EXCEPT
                               !.num = fd + 1,
                               !.gens = IF gen THEN 1 ELSE 0,
                               !.genOk = gen /\ outcome.ok,
                               !.value = IF gen /\ outcome.ok THEN outcome.out ELSE <<>>,
                               !.tagged = node.gen,
                               !.tampered = m # NoMutation,
                               !.afterFail = /\ ret.op = "open" /\ ret.path = p
                                             /\ ret.gens = 1 /\ ~ret.genOk,
                               !.old = node.content]

(***************************************************************************)
(* MemoryFileOps.read                                                      *)
(***************************************************************************)
\* read that slices the characters and encodes the slice
ReadBytesOfChars(content, size, offset) == Encode(Slice(content, offset, offset + size))

\* the bytes read returns from a content: lines 107-121
ReadBytes(content, size, offset) ==
    LET content_bytes == Encode(content)
        total_size == Len(content_bytes)
    IN  IF offset >= total_size THEN <<>>
        ELSE Slice(content_bytes, offset, offset + size)

Read(p, size, offset, fh) ==
    /\ UNCHANGED detached
    /\ IF fh \in DOMAIN open_files
       THEN LET node == Deref(open_files[fh].node)
            IN  /\ ret' = [Call("read", p) EXCEPT
                               !.fh = fh, !.size = size, !.offset = offset,
                               !.value = ReadBytes(node.content, size, offset),
                               !.tagged = node.gen,
                               !.old = node.content]
                /\ UNCHANGED <<data, open_files, fd>>
       ELSE IF ~IsFile(p)
       THEN /\ ret' = [Call("read", p) EXCEPT !.status = "ENOENT"]
            /\ UNCHANGED <<data, open_files, fd>>
       ELSE IF data[p].content # <<>>
       THEN /\ ret' = [Call("read", p) EXCEPT
                           !.size = size, !.offset = offset,
                           !.value = ReadBytes(data[p].content, size, offset),
                           !.tagged = data[p].gen,
                           !.old = data[p].content]
            /\ UNCHANGED <<data, open_files, fd>>
       ELSE \* auto-open: self.open(path, 0) generates and registers a handle
            \E outcome \in GenOutcomes :
                LET node == Generated(data[p], outcome)
                IN  /\ data' = [data EXCEPT ![p] = node]
                    /\ fd' = fd + 1
                    /\ open_files' = Put(open_files, fd + 1,
                                         [path |-> p, node |-> Stored(p)])
                    /\ ret' = [Call("read", p) EXCEPT
                                   !.size = size, !.offset = offset,
                                   !.value = ReadBytes(node.content, size, offset),
                                   !.gens = 1, !.genOk = outcome.ok,
                                   !.tagged = data[p].gen]

(***************************************************************************)
(* MemoryFileOps.write                                                     *)
(***************************************************************************)
\* a write that keeps what lies behind the written range
SpliceKeepTail(content, offset, text) ==
    Prefix(Ljust(content, offset), offset) \o text
        \o SubSeq(content, offset + Len(text) + 1, Len(content))

\* lines 140-144: pad with spaces up to offset, cut at offset, append data
Splice(content, offset, text) == Prefix(Ljust(content, offset), offset) \o text

\* lines 145-147
Written(n, offset, text) ==
    [n EXCEPT !.content = Splice(n.content, offset, text),
              !.size = Len(Encode(Splice(n.content, offset, text)))]

\* the rest of write once the node is resolved: lines 135-153
WriteNode(p, bytes, offset, fh, ref, node, call) ==
    IF ~Decodable(bytes)
    THEN \* data.decode raises UnicodeDecodeError, re-raised
         /\ data' = DataWith(ref, node)
         /\ detached' = DetachedWith(ref, node)
         /\ ret' = [Call("write", p) EXCEPT !.status = "UnicodeDecodeError",
                                           !.gens = call.gens, !.genOk = call.genOk]
    ELSE /\ Len(Splice(node.content, offset, Decode(bytes))) <= MaxLen
         /\ data' = DataWith(ref, Written(node, offset, Decode(bytes)))
         /\ detached' = DetachedWith(ref, Written(node, offset, Decode(bytes)))
         /\ ret' = [call EXCEPT !.num = Len(Decode(bytes)), !.spliced = node.content]

Write(p, bytes, offset, fh) ==
    LET call == [Call("write", p) EXCEPT !.fh = fh, !.offset = offset, !.bytes = bytes]
    IN  IF fh \in DOMAIN open_files
           THEN LET ref == open_files[fh].node
                IN  /\ WriteNode(p, bytes, offset, fh, ref, Deref(ref),
                                 [call EXCEPT !.tagged = Deref(ref).gen,
                                              !.old = Deref(ref).content])
                    /\ UNCHANGED <<open_files, fd>>
           ELSE IF ~IsFile(p)
           THEN /\ ret' = [Call("write", p) EXCEPT !.status = "ENOENT"]
                /\ UNCHANGED <<data, detached, open_files, fd>>
           ELSE IF data[p].content # <<>>
           THEN /\ WriteNode(p, bytes, offset, fh, Stored(p), data[p],
                             [call EXCEPT !.tagged = data[p].gen,
                                          !.old = data[p].content])
                /\ UNCHANGED <<open_files, fd>>
           ELSE \* auto-open: self.open(path, 0) generates and registers a handle
                \E outcome \in GenOutcomes :
                    LET node == Generated(data[p], outcome)
                    IN  /\ fd' = fd + 1
                        /\ open_files' = Put(open_files, fd + 1,
                                             [path |-> p, node |-> Stored(p)])
                        /\ WriteNode(p, bytes, offset, fh, Stored(p), node,
                                     [call EXCEPT !.gens = 1, !.genOk = outcome.ok,
                                                  !.tagged = data[p].gen])

(***************************************************************************)
(* MemoryFileOps.truncate                                                  *)
(***************************************************************************)
Truncated(n, length) == [n EXCEPT !.content = Prefix(n.content, length), !.size = length]

Truncate(p, length) ==
    /\ UNCHANGED <<detached, open_files, fd>>
    /\ IF ~Present(p)
       THEN /\ ret' = [Call("truncate", p) EXCEPT !.status = "absent"]
            /\ UNCHANGED data
       ELSE /\ data' = [data EXCEPT ![p] = Truncated(data[p], length)]
            /\ ret' = [Call("truncate", p) EXCEPT
                           !.size = length, !.old = data[p].content,
                           !.tagged = data[p].gen]

(***************************************************************************)
(* MemoryFileOps.release                                                   *)
(***************************************************************************)
Release(fh) ==
    /\ UNCHANGED <<data, fd>>
    /\ ret' = [Call("release", Root) EXCEPT
                   !.fh = fh, !.existed = fh \in DOMAIN open_files]
    /\ IF fh \notin DOMAIN open_files
       THEN UNCHANGED <<open_files, detached>>
       ELSE LET r == open_files[fh].node
                o1 == Drop(open_files, fh)
                rest == Holders(o1, r)
            IN  IF r.kind = "stored"
                THEN /\ open_files' = o1
                     /\ UNCHANGED detached
                ELSE IF rest = {}
                THEN /\ open_files' = o1
                     /\ detached' = Drop(detached, r.key)
                ELSE \* the dict stays alive, keyed by its least holder
                     /\ open_files' = [h \in DOMAIN o1 |->
                            IF h \in rest
                            THEN [o1[h] EXCEPT !.node = Detached(Min(rest))]
                            ELSE o1[h]]
                     /\ detached' = Put(Drop(detached, r.key), Min(rest), detached[r.key])

(***************************************************************************)
(* MemoryMetaOps.rename                                                    *)
(***************************************************************************)
\* rename that copies: the old key stays
PoppedKept(d, old) == d

\* line 35: self._root._data.pop(old)
Popped(d, old) == Drop(d, old)

Rename(old, new) ==
    /\ IF ~Present(old)
       THEN /\ ret' = [Call("rename", old) EXCEPT !.status = "absent"]
            /\ UNCHANGED <<data, detached, open_files, fd>>
       ELSE LET node == data[old]
                \* node = self._root._data.pop(old)
                d1 == Popped(data, old)
                \* old_parent is looked up after the pop
                d2 == IF Dirname(old) \in DOMAIN d1 /\ HasChildren(d1[Dirname(old)])
                      THEN [d1 EXCEPT ![Dirname(old)].children = Drop(@, Basename(old))]
                      ELSE d1
                \* self._root._data[new] = node
                d3 == Put(d2, new, node)
                \* new_parent is looked up after the assignment
                d4 == IF Dirname(new) \in DOMAIN d3 /\ HasChildren(d3[Dirname(new)])
                      THEN [d3 EXCEPT ![Dirname(new)].children = Put(@, Basename(new), new)]
                      ELSE d3
            IN  /\ data' = d4
                /\ detached' = DetachNodes(detached, open_files, d2, new)
                /\ open_files' = MoveHandles(IF new \in DOMAIN d2
                                              THEN DetachHandles(open_files, new)
                                              ELSE open_files, old, new)
                /\ ret' = [Call("rename", old) EXCEPT
                               !.path2 = new, !.old = node.content,
                               !.existed = new \in DOMAIN d2]
                /\ UNCHANGED fd

(***************************************************************************)
(* MemoryMetaOps.unlink                                                    *)
(***************************************************************************)
\* unlink that signals a path that is not stored
UnlinkRaising(p) ==
    /\ ret' = [Call("unlink", p) EXCEPT !.status = IF Present(p) THEN "ok" ELSE "ENOENT"]
    /\ UNCHANGED <<data, detached, open_files, fd>>

Unlink(p) ==
    /\ IF ~Present(p)
       THEN \* logged, nothing raised
            /\ ret' = [Call("unlink", p) EXCEPT !.status = "absent"]
            /\ UNCHANGED <<data, detached, open_files, fd>>
       ELSE IF ~Present(Dirname(p))
       THEN \* parent is None: parent["children"] raises TypeError, re-raised
            /\ ret' = [Call("unlink", p) EXCEPT !.status = "TypeError"]
            /\ UNCHANGED <<data, detached, open_files, fd>>
       ELSE IF ~HasChildren(data[Dirname(p)])
       THEN \* parent["children"] raises KeyError, re-raised
            /\ ret' = [Call("unlink", p) EXCEPT !.status = "KeyError"]
            /\ UNCHANGED <<data, detached, open_files, fd>>
       ELSE /\ data' = Drop([data EXCEPT ![Dirname(p)].children =
                                 Drop(@, Basename(p))], p)
            /\ detached' = DetachNodes(detached, open_files, data, p)
            /\ open_files' = DetachHandles(open_files, p)
            /\ ret' = Call("unlink", p)
            /\ UNCHANGED fd

(***************************************************************************)
(* MemoryMetaOps.getattr.  Of the attribute mapping the model keeps        *)
(* st_size.                                                                *)
(***************************************************************************)
\* MemoryBase._get_size: the byte length of a file's content, 0 otherwise
GetSize(n) == IF n.type = "file" THEN Len(Encode(n.content)) ELSE 0

\* getattr that trusts the stored st_size
GetAttrStored(n) == IF n.size # NoSize THEN n.size ELSE GetSize(n)

\* lines 52-73: the stored attributes, then st_size overwritten
GetAttrSize(n) == GetSize(n)

GetAttr(p) ==
    /\ UNCHANGED <<data, detached, open_files, fd>>
    /\ IF ~Present(p)
       THEN ret' = [Call("getattr", p) EXCEPT !.status = "ENOENT"]
       ELSE ret' = [Call("getattr", p) EXCEPT
                        !.num = GetAttrSize(data[p]), !.old = data[p].content]

(***************************************************************************)
(* The arguments the calls are made with.  A call on a registered handle   *)
(* is made with the path the handle was opened on, and 0 is the handle     *)
(* that is never registered.  A read or write that resolves to no file     *)
(* fails whatever its other arguments are, so it is made with one choice   *)
(* of them.                                                                *)
(***************************************************************************)
Handles == (DOMAIN open_files) \cup {0}

HandlePath(h, p) == h \in DOMAIN open_files => p = open_files[h].path

Resolves(p, h) == h \in DOMAIN open_files \/ IsFile(p)

Offsets == 0..MaxLen

Huge == 2 * MaxLen

Sizes == {0, 1, 2, Huge}

Lengths == 0..(MaxLen + 1)

\* b'', b'a', the two bytes of 'e-acute', and its first byte alone
Datas == {<<>>, <<97>>, <<195, 169>>, <<195>>}

MaxCalls == 2    \* calls made in a run

\* every call counts against the length of the run
Tick ==
    /\ calls < MaxCalls
    /\ calls' = calls + 1
    /\ UNCHANGED <<fs_structure, resolved, inflight>>

Next ==
    \/ \E p \in Paths : Tick /\ Create(p)
    \/ \E p \in Paths, g \in GenOutcomes : Tick /\ Open(p, g)
    \/ \E p \in Paths, sz \in Sizes, off \in Offsets, h \in Handles :
           /\ Tick /\ HandlePath(h, p)
           /\ Resolves(p, h) \/ (sz = 0 /\ off = 0)
           /\ Read(p, sz, off, h)
    \/ \E p \in Paths, b \in Datas, off \in Offsets, h \in Handles :
           /\ Tick /\ HandlePath(h, p)
           /\ Resolves(p, h) \/ (b = <<>> /\ off = 0)
           /\ Write(p, b, off, h)
    \/ \E p \in Paths, n \in Lengths : Tick /\ Truncate(p, n)
    \/ \E h \in Handles : Tick /\ Release(h)
    \/ \E old \in Paths, new \in Paths : Tick /\ Rename(old, new)
    \/ \E p \in Paths : Tick /\ Unlink(p)
    \/ \E p \in Paths : Tick /\ GetAttr(p)

Spec == Init /\ [][Next]_vars

(***************************************************************************)
(* The prompt plugin: PromptPlugin.generate(path, node, fs_structure).     *)
(* A content is a form and a body: a JSON object with a "prompt" field     *)
(* holding the body ("json"), the body as plain text ("text"), a JSON      *)
(* text that does not parse ("badjson"), text with a format placeholder    *)
(* such as {path} ("template"), or no content at all ("empty").  The body  *)
(* of a seeded configuration file is its own path, so that a value tells   *)
(* which file it came from.                                                *)
(***************************************************************************)
ConvA == ".llmfs.prompt"

ConvB == ".prompt"

PromptDirs == {Root, <<"a">>, <<"a", "b">>, <<"a", "o">>}

ConfigPaths == {Append(d, c) : d \in PromptDirs, c \in {ConvA, ConvB}}

PlainFiles == {Append(d, "f") : d \in PromptDirs}

Forms == {"json", "text"}

\* the forms at most one file of a tree takes instead of plain text
OddForms == {"json", "badjson", "template", "empty"}

HasContent(c) == c.form # "empty"

Text(b) == [form |-> "text", body |-> b]

DefaultTemplate == Text(<<"default">>)

\* a prompt that has its placeholders filled in
PromptValueFormatted(c) ==
    IF c.form = "json" THEN Text(c.body)
    ELSE IF c.form = "template" THEN Text(c.body)
    ELSE c

\* a JSON payload yields its "prompt" field, anything else the raw content
PromptValue(c) == IF c.form = "json" THEN Text(c.body) ELSE c

\* the walk that looks at convention B first
CandidateAtSwapped(d, path, fs) ==
    IF Append(d, ConvB) \in DOMAIN fs /\ Append(d, ConvB) # path
    THEN <<Append(d, ConvB)>>
    ELSE IF Append(d, ConvA) \in DOMAIN fs /\ Append(d, ConvA) # path
    THEN <<Append(d, ConvA)>>
    ELSE <<>>

\* the walk that does not leave out the path being resolved
CandidateAtSelf(d, path, fs) ==
    IF Append(d, ConvA) \in DOMAIN fs THEN <<Append(d, ConvA)>>
    ELSE IF Append(d, ConvB) \in DOMAIN fs THEN <<Append(d, ConvB)>>
    ELSE <<>>

\* the configuration file of directory d, if any: convention A, else B; the
\* path being resolved is never its own candidate
CandidateAt(d, path, fs) ==
    IF Append(d, ConvA) \in DOMAIN fs /\ Append(d, ConvA) # path
    THEN <<Append(d, ConvA)>>
    ELSE IF Append(d, ConvB) \in DOMAIN fs /\ Append(d, ConvB) # path
    THEN <<Append(d, ConvB)>>
    ELSE <<>>

\* from directory d upward to the root
RECURSIVE FindNearest(_, _, _)
FindNearest(d, path, fs) ==
    IF CandidateAt(d, path, fs) # <<>> THEN CandidateAt(d, path, fs)
    ELSE IF d = Root THEN <<>>
    ELSE FindNearest(Dirname(d), path, fs)

\* the node's own content if it has any, else the nearest configuration
\* file's value, else the default template
PromptGenerate(path, fs) ==
    IF path \in DOMAIN fs /\ HasContent(fs[path]) THEN PromptValue(fs[path])
    ELSE LET nearest == FindNearest(Dirname(path), path, fs)
         IN  IF nearest # <<>> THEN PromptValue(fs[nearest[1]]) ELSE DefaultTemplate

\* every tree of configuration files with text content, and in it at most one
\* file of another form
InitPrompt ==
    /\ InitStore(FALSE, <<>>)
    /\ \E S \in SUBSET ConfigPaths :
           \/ fs_structure = [q \in S |-> [form |-> "text", body |-> q]]
           \/ \E odd \in S, f \in OddForms :
                  fs_structure = [q \in S |-> [form |-> IF q = odd THEN f ELSE "text",
                                               body |-> q]]
    /\ resolved = NoResolution
    /\ inflight = [c \in Callers |-> Idle]

\* no configuration file other than the path resolved is without content:
\* what such a file resolves to for the files below it is left open
Determined(path, fs) == \A q \in DOMAIN fs : q # path => HasContent(fs[q])

Resolve(path) ==
    /\ Determined(path, fs_structure)
    /\ resolved' = [path |-> path, value |-> PromptGenerate(path, fs_structure)]
    /\ UNCHANGED <<data, detached, open_files, fd, calls, ret, fs_structure, inflight>>

NextPrompt == \E path \in PlainFiles \cup ConfigPaths : Resolve(path)

SpecPrompt == InitPrompt /\ [][NextPrompt]_vars

(***************************************************************************)
(* create, unlink and rename update by update.  Nothing in the operations  *)
(* keeps one caller out while another is between two updates, so with      *)
(* several callers the updates interleave; a reader sees the store as it   *)
(* is after any of them.  A lookup and the use of what it found are one    *)
(* step wherever no update lies between them.  No file is open here, so    *)
(* the handle table stays empty.                                           *)
(***************************************************************************)
\* the store lets go of the dict at p
LoseRefs(inf, p) ==
    [c \in DOMAIN inf |->
        IF inf[c].par = StoredAt(p) THEN [inf[c] EXCEPT !.par = Lost] ELSE inf[c]]

\* the dict referred to by r is now referred to by r2
MoveRefs(inf, r, r2) ==
    [c \in DOMAIN inf |->
        IF inf[c].par = r THEN [inf[c] EXCEPT !.par = r2] ELSE inf[c]]

Begin(c) ==
    /\ inflight[c] = Idle
    /\ calls < MaxCalls
    /\ calls' = calls + 1

StepFrame == UNCHANGED <<detached, open_files, ret, fs_structure, resolved>>

\* create, lines 23-36: the parent is looked up, the node is stored
CreateStore(c, p) ==
    /\ Begin(c) /\ StepFrame /\ UNCHANGED fd
    /\ IF ~Present(Dirname(p))
       THEN UNCHANGED <<data, inflight>>
       ELSE /\ data' = Put(data, p, FileNode(FALSE))
            /\ inflight' = LoseRefs([inflight EXCEPT ![c] =
                                        [Idle EXCEPT !.op = "create", !.pc = "link",
                                                     !.path = p,
                                                     !.par = StoredAt(Dirname(p))]], p)

\* create, lines 37-40: the name is entered in the parent found before
CreateLink(c) ==
    /\ inflight[c].op = "create" /\ inflight[c].pc = "link"
    /\ StepFrame /\ UNCHANGED calls
    /\ LET p == inflight[c].path
           par == inflight[c].par
           done == [inflight EXCEPT ![c] = Idle]
       IN  IF par.kind = "stored"
           THEN IF HasChildren(data[par.at])
                THEN /\ data' = [data EXCEPT ![par.at].children = Put(@, Basename(p), p)]
                     /\ inflight' = done
                     /\ fd' = fd + 1
                ELSE \* KeyError
                     /\ inflight' = done
                     /\ UNCHANGED <<data, fd>>
           ELSE IF par.kind = "held"
           THEN IF HasChildren(inflight[par.by].node)
                THEN /\ inflight' = [done EXCEPT ![par.by].node.children =
                                                    Put(@, Basename(p), p)]
                     /\ fd' = fd + 1
                     /\ UNCHANGED data
                ELSE /\ inflight' = done
                     /\ UNCHANGED <<data, fd>>
           ELSE \* the dict is no longer in the store: the entry is made in it
                /\ inflight' = done
                /\ fd' = fd + 1
                /\ UNCHANGED data

\* unlink, lines 88-91: the name is popped from the parent's children
UnlinkPop(c, p) ==
    /\ Begin(c) /\ StepFrame /\ UNCHANGED fd
    /\ IF ~Present(p) \/ ~Present(Dirname(p)) \/ ~HasChildren(data[Dirname(p)])
       THEN \* nothing to do, or TypeError, or KeyError
            UNCHANGED <<data, inflight>>
       ELSE /\ data' = [data EXCEPT ![Dirname(p)].children = Drop(@, Basename(p))]
            /\ inflight' = [inflight EXCEPT ![c] =
                               [Idle EXCEPT !.op = "unlink", !.pc = "del", !.path = p]]

\* unlink, line 92: del self._root._data[path]
UnlinkDel(c) ==
    /\ inflight[c].op = "unlink" /\ inflight[c].pc = "del"
    /\ StepFrame /\ UNCHANGED <<calls, fd>>
    /\ LET p == inflight[c].path
       IN  IF Present(p)
           THEN /\ data' = Drop(data, p)
                /\ inflight' = LoseRefs([inflight EXCEPT ![c] = Idle], p)
           ELSE \* KeyError: another caller removed it
                /\ inflight' = [inflight EXCEPT ![c] = Idle]
                /\ UNCHANGED data

\* rename, lines 34-35: the node is popped from the store
RenamePop(c, old, new) ==
    /\ Begin(c) /\ StepFrame /\ UNCHANGED fd
    /\ IF ~Present(old)
       THEN UNCHANGED <<data, inflight>>
       ELSE /\ data' = Popped(data, old)
            /\ inflight' = MoveRefs([inflight EXCEPT ![c] =
                                        [Idle EXCEPT !.op = "rename", !.pc = "unlinkchild",
                                                     !.path = old, !.path2 = new,
                                                     !.node = data[old]]],
                                    StoredAt(old), HeldBy(c))

\* rename, lines 36-38: the old name is popped from the old parent
RenameUnlinkChild(c) ==
    /\ inflight[c].op = "rename" /\ inflight[c].pc = "unlinkchild"
    /\ StepFrame /\ UNCHANGED <<calls, fd>>
    /\ LET old == inflight[c].path
       IN  /\ data' = IF Present(Dirname(old)) /\ HasChildren(data[Dirname(old)])
                      THEN [data EXCEPT ![Dirname(old)].children = Drop(@, Basename(old))]
                      ELSE data
           /\ inflight' = [inflight EXCEPT ![c].pc = "store"]

\* rename, line 40: the node is stored under the new path
RenameStore(c) ==
    /\ inflight[c].op = "rename" /\ inflight[c].pc = "store"
    /\ StepFrame /\ UNCHANGED <<calls, fd>>
    /\ LET new == inflight[c].path2
       IN  /\ data' = Put(data, new, inflight[c].node)
           /\ inflight' = MoveRefs(LoseRefs([inflight EXCEPT ![c].pc = "link"], new),
                                   HeldBy(c), StoredAt(new))

\* rename, lines 41-43: the new name is entered in the new parent
RenameLink(c) ==
    /\ inflight[c].op = "rename" /\ inflight[c].pc = "link"
    /\ StepFrame /\ UNCHANGED <<calls, fd>>
    /\ LET new == inflight[c].path2
       IN  /\ data' = IF Present(Dirname(new)) /\ HasChildren(data[Dirname(new)])
                      THEN [data EXCEPT ![Dirname(new)].children = Put(@, Basename(new), new)]
                      ELSE data
           /\ inflight' = [inflight EXCEPT ![c] = Idle]

InitSteps ==
    /\ \E tagged \in BOOLEAN, c \in SeedContents : InitStore(tagged, c)
    /\ fs_structure = NoStructure
    /\ resolved = NoResolution
    /\ inflight = [c \in Callers |-> Idle]

NextSteps ==
    \/ \E c \in Callers, p \in Paths : CreateStore(c, p)
    \/ \E c \in Callers : CreateLink(c)
    \/ \E c \in Callers, p \in Paths : UnlinkPop(c, p)
    \/ \E c \in Callers : UnlinkDel(c)
    \/ \E c \in Callers, old \in Paths, new \in Paths : RenamePop(c, old, new)
    \/ \E c \in Callers : RenameUnlinkChild(c)
    \/ \E c \in Callers : RenameStore(c)
    \/ \E c \in Callers : RenameLink(c)

SpecSteps == InitSteps /\ [][NextSteps]_vars

(***************************************************************************)
(* Properties.                                                             *)
(***************************************************************************)
\* lookup(p): the content of the node a handle-less access resolves
Content(p) == data[p].content

\* the non-root paths of the store that lie directly in directory d
Kids(d) == {p \in DOMAIN data : p # Root /\ Dirname(p) = d}

\* the children map of directory d is exactly {basename(p) -> p : p in Kids(d)}
ChildrenExact(d) ==
    /\ DOMAIN data[d].children = {Basename(p) : p \in Kids(d)}
    /\ \A p \in Kids(d) : data[d].children[Basename(p)] = p

\* C1: in every state reached by create, unlink and rename calls, every
\* directory's children map is exactly the set of stored paths whose dirname
\* is that directory: no entry is missing and none dangles.
C1_ChildrenInLockStep ==
    \A d \in DOMAIN data : data[d].type = "directory" => ChildrenExact(d)

\* C2: after create(p, mode) has returned for a path p below a directory,
\* lookup(p) is a file with empty content and the parent's children map holds
\* basename(p) -> p, whether or not p existed before.
C2_CreateThenLookup ==
    (ret.op = "create" /\ ret.status = "ok" /\ ret.path # Root) =>
        /\ IsFile(ret.path)
        /\ Content(ret.path) = <<>>
        /\ Present(Dirname(ret.path))
        /\ Basename(ret.path) \in DOMAIN data[Dirname(ret.path)].children
        /\ data[Dirname(ret.path)].children[Basename(ret.path)] = ret.path

\* create has returned for a path that held a node before the call
C2_Witness ==
    /\ ret.op = "create" /\ ret.status = "ok" /\ ret.path # Root
    /\ ret.existed

\* the node a write or read with handle fh for path p acts on
Target(p, fh) == IF fh \in DOMAIN open_files THEN Deref(open_files[fh].node) ELSE data[p]

\* C3: a write followed by a read of len(data) bytes at the same offset, with
\* the same path and handle, returns exactly data, and after the write the
\* content is at least offset + len(data) bytes long.
C3_WriteReadRoundTrip ==
    /\ [](ret.op = "write" /\ ret.status = "ok" =>
            Len(Encode(Target(ret.path, ret.fh).content)) >= ret.offset + Len(ret.bytes))
    /\ [][(/\ ret.op = "write" /\ ret.status = "ok"
           /\ Tick
           /\ Read(ret.path, Len(ret.bytes), ret.offset, ret.fh))
          => ret'.value = ret.bytes]_vars

\* C4: after rename(old, new) of an existing path old, lookup(old) fails and
\* lookup(new) yields the content the node at old had.
C4_RenameMoves ==
    (ret.op = "rename" /\ ret.status = "ok") =>
        /\ ~Present(ret.path)
        /\ Present(ret.path2)
        /\ Content(ret.path2) = ret.old

\* C4, amended: the same for new # old; rename(old, old) leaves the node in
\* place, with its content.
C4_RenameMovesElsewhere ==
    (ret.op = "rename" /\ ret.status = "ok") =>
        /\ Present(ret.path2)
        /\ Content(ret.path2) = ret.old
        /\ ret.path2 # ret.path => ~Present(ret.path)

\* a file with content has been renamed onto another path that held a node
C4_Witness ==
    /\ ret.op = "rename" /\ ret.status = "ok"
    /\ ret.path2 # ret.path
    /\ ret.existed
    /\ ret.old # <<>>

\* C5: truncate(p, n) of a file with content c followed by read(p, huge, 0)
\* without a registered handle returns exactly the first n bytes of c.
C5_TruncateThenRead ==
    [][(/\ ret.op = "truncate" /\ ret.status = "ok"
        /\ IsFile(ret.path)
        /\ Tick
        /\ Read(ret.path, Huge, 0, 0))
       => ret'.value = Prefix(Encode(ret.old), ret.size)]_vars

\* C6: an open whose generator fails returns a handle without an error and
\* leaves the content empty, and the failure is not remembered: the next open
\* of the path invokes the generator again and, when that succeeds, the node
\* holds the generated content.
C6_FailedGenerationRetried ==
    /\ (ret.op = "open" /\ ret.gens = 1 /\ ~ret.genOk) =>
            /\ ret.status = "ok"
            /\ ret.num = fd /\ ret.num \in DOMAIN open_files
            /\ open_files[ret.num].path = ret.path
            /\ IsFile(ret.path) /\ Content(ret.path) = <<>>
    /\ (ret.op = "open" /\ ret.afterFail) =>
            /\ ret.status = "ok"
            /\ ret.gens = 1
            /\ ret.genOk => Content(ret.path) = ret.value

\* an open that follows a failed generation on the same path has generated
C6_Witness ==
    /\ ret.op = "open" /\ ret.afterFail
    /\ ret.tagged
    /\ ret.genOk /\ Content(ret.path) # <<>>

\* C7: getattr on a file reports st_size as the byte length of the current
\* content, whatever size is stored; and after open has generated content for
\* a tagged file whose content was empty, the content is the generator's
\* output and getattr reports its byte length.
C7_SizeFromContent ==
    /\ (ret.op = "getattr" /\ ret.status = "ok" /\ IsFile(ret.path)) =>
            ret.num = Len(Encode(Content(ret.path)))
    /\ (ret.op = "open" /\ ret.genOk /\ ret.tagged /\ ret.old = <<>>) =>
            /\ Content(ret.path) = ret.value
            /\ GetAttrSize(data[ret.path]) = Len(Encode(ret.value))

\* getattr has answered for a file whose stored st_size is stale
C7_Witness ==
    /\ ret.op = "getattr" /\ ret.status = "ok" /\ IsFile(ret.path)
    /\ data[ret.path].size # NoSize
    /\ data[ret.path].size # Len(Encode(Content(ret.path)))

\* C8: an open or read of a file that holds content returns the stored
\* content without invoking the generator, and leaves the content as it was.
C8_GeneratedOnce ==
    (ret.op \in {"open", "read"} /\ ret.status = "ok" /\ ret.old # <<>>) =>
        /\ ret.gens = 0
        /\ Target(ret.path, ret.fh).content = ret.old

\* C8, amended: a read of a file that holds content, and an open of such a
\* file that has no generator tag, do not invoke the generator and leave the
\* content as it was; an open of a generator-tagged file invokes the
\* generator every time.
C8_CachedUnlessTaggedOpen ==
    /\ (ret.op = "read" /\ ret.status = "ok" /\ ret.old # <<>>) =>
            /\ ret.gens = 0
            /\ Target(ret.path, ret.fh).content = ret.old
    /\ (ret.op = "open" /\ ret.status = "ok" /\ ret.old # <<>> /\ ~ret.tagged) =>
            /\ ret.gens = 0
            /\ Content(ret.path) = ret.old
    /\ (ret.op = "open" /\ ret.status = "ok" /\ ret.tagged) => ret.gens = 1

\* an open has regenerated a tagged file that held other content
C8_Witness ==
    /\ ret.op = "open" /\ ret.status = "ok" /\ ret.tagged
    /\ ret.old # <<>>
    /\ ret.genOk /\ Content(ret.path) # ret.old

\* C9: open, read and write on a file with no generator tag and empty content
\* never invoke a generator.
C9_UntaggedNeverGenerated ==
    (/\ ret.op \in {"open", "read", "write"} /\ ret.status = "ok"
     /\ ~ret.tagged /\ ret.old = <<>>) => ret.gens = 0

\* C9, amended: a file with no generator tag is never regenerated while it
\* holds content; a file with empty content, tagged or not, is regenerated by
\* open and by a read or write that resolves it by path, and never by a read
\* or write through a registered handle.
C9_EmptyMeansRegenerate ==
    /\ (/\ ret.op \in {"open", "read", "write"} /\ ret.status = "ok"
        /\ ~ret.tagged /\ ret.old # <<>>) => ret.gens = 0
    /\ (ret.op = "open" /\ ret.status = "ok" /\ ret.old = <<>>) => ret.gens = 1
    /\ (/\ ret.op \in {"read", "write"} /\ ret.status = "ok"
        /\ ret.fh = 0 /\ ret.old = <<>>) => ret.gens = 1
    /\ (ret.op \in {"read", "write"} /\ ret.status = "ok" /\ ret.fh # 0) => ret.gens = 0

\* an open has generated content for an untagged empty file
C9_Witness ==
    /\ ret.op = "open" /\ ret.status = "ok"
    /\ ~ret.tagged /\ ret.old = <<>>
    /\ ret.gens = 1 /\ ret.genOk

\* the directories above a path, and those of them that hold a
\* configuration file
Ancestors(p) == {SubSeq(p, 1, k) : k \in 0..(Len(p) - 1)}

HasConfig(d) == Append(d, ConvA) \in DOMAIN fs_structure \/ Append(d, ConvB) \in DOMAIN fs_structure

\* C10: the resolution for a file is the value of the configuration file of
\* the nearest ancestor directory that has one, .llmfs.prompt before .prompt
\* in that directory; it is the default template exactly when no ancestor up
\* to the root has either file.
C10_NearestConfigWins ==
    (resolved.path \in PlainFiles) =>
        /\ \A d \in Ancestors(resolved.path) :
              (/\ HasConfig(d)
               /\ \A e \in Ancestors(resolved.path) : HasConfig(e) => Len(e) <= Len(d))
              => resolved.value =
                    IF Append(d, ConvA) \in DOMAIN fs_structure
                    THEN PromptValue(fs_structure[Append(d, ConvA)])
                    ELSE PromptValue(fs_structure[Append(d, ConvB)])
        /\ (resolved.value = DefaultTemplate) <=>
              (\A d \in Ancestors(resolved.path) : ~HasConfig(d))

\* /a/b/f resolved to /a/b/.prompt although /a holds both conventions
C10_Witness ==
    /\ resolved.path = <<"a", "b", "f">>
    /\ Append(<<"a", "b">>, ConvA) \notin DOMAIN fs_structure
    /\ Append(<<"a", "b">>, ConvB) \in DOMAIN fs_structure
    /\ Append(<<"a">>, ConvA) \in DOMAIN fs_structure
    /\ Append(<<"a">>, ConvB) \in DOMAIN fs_structure
    /\ resolved.value = Text(Append(<<"a", "b">>, ConvB))

\* the configuration files other than p in the directories above p
Others(p) ==
    {q \in DOMAIN fs_structure : q # p /\ Dirname(q) \in Ancestors(p)}

\* the file the walk for p ends at, among the files other than p: in the
\* deepest directory that holds one, .llmfs.prompt before .prompt
IsNearestOther(q, p) ==
    /\ q \in Others(p)
    /\ \A r \in Others(p) : Len(r) <= Len(q)
    /\ Basename(q) = ConvB => Append(Dirname(q), ConvA) \notin Others(p)

\* C11: the resolution for a path that is itself a configuration file never
\* takes that path as a candidate: it is the file's own stored content, or the
\* value of the nearest configuration file other than the path (its own
\* directory included), or the default template when there is none.
C11_NeverResolvesItself ==
    (resolved.path \in ConfigPaths) =>
        IF resolved.path \in DOMAIN fs_structure /\ HasContent(fs_structure[resolved.path])
        THEN resolved.value = PromptValue(fs_structure[resolved.path])
        ELSE /\ \A q \in ConfigPaths :
                   IsNearestOther(q, resolved.path) =>
                       resolved.value = PromptValue(fs_structure[q])
             /\ Others(resolved.path) = {} => resolved.value = DefaultTemplate
             /\ resolved.value # PromptValue([form |-> "empty", body |-> resolved.path])

\* /a/b/.llmfs.prompt is stored without content and resolves to the value of
\* /a/b/.prompt beside it
C11_Witness ==
    /\ resolved.path = Append(<<"a", "b">>, ConvA)
    /\ resolved.path \in DOMAIN fs_structure
    /\ ~HasContent(fs_structure[resolved.path])
    /\ Append(<<"a", "b">>, ConvB) \in DOMAIN fs_structure
    /\ resolved.value = Text(Append(<<"a", "b">>, ConvB))

\* C12: a configuration file whose content is a payload with a prompt field
\* resolves to that field; with any other content (text, a payload that does
\* not parse, text with placeholders) to the raw content unchanged; without
\* content and without another configuration file above it, to the default
\* template.
C12_ValueByContent ==
    (resolved.path \in ConfigPaths) =>
        LET p == resolved.path
            own == fs_structure[p]
        IN  /\ (p \in DOMAIN fs_structure /\ own.form = "json") =>
                   resolved.value = Text(own.body)
            /\ (p \in DOMAIN fs_structure /\ own.form \in {"text", "badjson", "template"}) =>
                   resolved.value = own
            /\ ((p \in DOMAIN fs_structure => own.form = "empty") /\ Others(p) = {}) =>
                   resolved.value = DefaultTemplate

\* a configuration file holding text with a placeholder has been resolved
C12_Witness ==
    /\ resolved.path \in ConfigPaths
    /\ resolved.path \in DOMAIN fs_structure
    /\ fs_structure[resolved.path].form = "template"
    /\ resolved.value = fs_structure[resolved.path]

\* C13: the root path is stored, as a directory, in every state.
C13_RootAlwaysDirectory == Present(Root) /\ data[Root].type = "directory"

\* C14: every stored path other than the root has its dirname stored, as a
\* directory.
C14_ParentIsDirectory ==
    \A p \in DOMAIN data :
        p # Root => Present(Dirname(p)) /\ data[Dirname(p)].type = "directory"

\* C15: every call succeeds or signals NotFound; no other error escapes.
C15_OnlyNotFound == ret.status \in {"ok", "absent", "ENOENT"}

\* C16: unlink of a path that is not stored signals no error and leaves the
\* stored paths, the nodes, the children maps and the handle table as they
\* were.
C16_UnlinkAbsentIsNoOp ==
    [][\A p \in Paths :
          (p \notin DOMAIN data /\ ret'.op = "unlink" /\ ret'.path = p) =>
              /\ ret'.status = "absent"
              /\ UNCHANGED <<data, detached, open_files, fd>>]_vars

\* unlink has been called for a path that is not stored, in a state with an
\* open handle
C16_Witness ==
    /\ ret.op = "unlink" /\ ret.status = "absent"
    /\ ret.path \notin DOMAIN data
    /\ DOMAIN open_files # {}

\* the number of bytes of a content of L bytes in [offset, min(offset + size, L))
Clipped(L, size, offset) ==
    IF offset >= L THEN 0
    ELSE IF offset + size <= L THEN size ELSE L - offset

\* C17: read of a file returns exactly the bytes of the content at positions
\* offset up to min(offset + size, L), nothing when offset >= L, signals an
\* error for no offset or size, and leaves a non-empty content as it was.
C17_ReadClipped ==
    /\ (ret.op = "read" /\ ret.status = "ok") =>
          LET content_bytes == Encode(Target(ret.path, ret.fh).content)
          IN  /\ Len(ret.value) = Clipped(Len(content_bytes), ret.size, ret.offset)
              /\ \A i \in 1..Len(ret.value) : ret.value[i] = content_bytes[ret.offset + i]
              /\ ret.old # <<>> => Target(ret.path, ret.fh).content = ret.old
    /\ (ret.op = "read" /\ ret.status # "ok") =>
          ret.status = "ENOENT" /\ ~IsFile(ret.path)

\* a read that starts inside a two-byte character and asks for more than is left
C17_Witness ==
    /\ ret.op = "read" /\ ret.status = "ok"
    /\ ret.old = <<233>>
    /\ ret.offset = 1 /\ ret.size = Huge
    /\ ret.value = <<169>>

\* C18: a write leaves a content at least as long as the content before it.
C18_WriteNeverShrinks ==
    (ret.op = "write" /\ ret.status = "ok") =>
        /\ Len(Target(ret.path, ret.fh).content) >= Len(ret.old)
        /\ Len(Encode(Target(ret.path, ret.fh).content)) >= Len(Encode(ret.old))

\* C19: the handle table holds exactly the handles returned by create or open
\* and not released since: create and open add the handle they return,
\* release(h) removes h and nothing else, and no other call changes the table.
C19_HandleTableExact ==
    [][/\ (ret'.op \in {"create", "open"} /\ ret'.status = "ok") =>
              /\ DOMAIN open_files' = DOMAIN open_files \cup {ret'.num}
              /\ open_files'[ret'.num].path = ret'.path
       /\ (ret'.op = "release") =>
              DOMAIN open_files' = DOMAIN open_files \ {ret'.fh}
       /\ (~(ret'.op \in {"create", "open"} /\ ret'.status = "ok") /\ ret'.op # "release") =>
              DOMAIN open_files' = DOMAIN open_files]_vars

\* C20: whatever the generator does to the tree it is given, the store after
\* an open differs from the store before it only in the opened node's content
\* and stored size; the tree given has no st_size, the live nodes keep theirs.
C20_GeneratorSeesCopy ==
    [][(ret'.op = "open" /\ ret'.status = "ok") =>
          /\ DOMAIN data' = DOMAIN data
          /\ \A q \in DOMAIN data : q # ret'.path => data'[q] = data[q]
          /\ data'[ret'.path] = [data[ret'.path] EXCEPT
                                    !.content = data'[ret'.path].content,
                                    !.size = data'[ret'.path].size]
          /\ data'[ret'.path].size \in
                 {data[ret'.path].size, Len(Encode(data'[ret'.path].content))}
          /\ detached' = detached
          /\ \A q \in DOMAIN data : Snapshot(data)[q].size = NoSize]_vars

\* an open has generated content with a generator that changed the tree it
\* was given, while another node has a stored size
C20_Witness ==
    /\ ret.op = "open" /\ ret.status = "ok"
    /\ ret.gens = 1 /\ ret.genOk /\ ret.tampered
    /\ \E q \in DOMAIN data : q # ret.path /\ data[q].size # NoSize

\* C21: whatever state a reader looks at, also between two updates of a
\* create, unlink or rename, every stored path is named in the children map
\* of its parent directory, and every name in a directory's children map is
\* a path that a lookup finds.
C21_ReaderSeesLockStep ==
    /\ \A p \in DOMAIN data :
          (p # Root /\ Present(Dirname(p)) /\ HasChildren(data[Dirname(p)])) =>
              Basename(p) \in DOMAIN data[Dirname(p)].children
    /\ \A d \in DOMAIN data :
          HasChildren(data[d]) =>
              \A n \in DOMAIN data[d].children : Append(d, n) \in DOMAIN data

C23_StoredSizeIsByteLength ==
    /\ \A p \in DOMAIN data :
          (data[p].type = "file" /\ data[p].size # NoSize) =>
              data[p].size = Len(Encode(data[p].content))
    /\ \A k \in DOMAIN detached :
          (detached[k].type = "file" /\ detached[k].size # NoSize) =>
              detached[k].size = Len(Encode(detached[k].content))

\* C24: for every entry of the handle table, a node stored at the entry's
\* path is the node the handle holds, so that access by handle and access by
\* path see one content.
C24_HandleAndPathAgree ==
    \A h \in DOMAIN open_files :
        Present(open_files[h].path) =>
            /\ open_files[h].node = Stored(open_files[h].path)
            /\ Deref(open_files[h].node).content = data[open_files[h].path].content

====
